---- MODULE Spec2Model ----
(***************************************************************************)
(* Model of librp/server.go (ying32/ReverseProxy): the server side of the  *)
(* reverse tunnel.  TRPServer owns a TCP listener for agents, an HTTP      *)
(* server for callers and the reference s.conn to the active agent stream. *)
(* Every goroutine of the program is a process of the model: Start/Close   *)
(* (the caller), the accept loop tcpServer, one cliProcess per accepted    *)
(* stream, one ServeHTTP per HTTP request.  Each step that reads or writes *)
(* the unsynchronised field s.conn is an action of its own, so that the    *)
(* interleavings the Go scheduler allows are the behaviours of the model.  *)
(* A read of s.conn that races with an assignment sees the value before or *)
(* the value after it.  Steps that touch only their own stream or request  *)
(* are joined to the step that follows them.                               *)
(***************************************************************************)
EXTENDS Integers, Sequences, FiniteSets, TLC

\* ---- bounds of the model -------------------------------------------------
MaxConns == 2        \* tunnel streams the accept loop accepts
MaxReqs == 2         \* HTTP requests that arrive
MaxCloseCalls == 2   \* calls of Close
MaxPushed == 1       \* packets an agent has sent unasked and the server has not read

Conns == 1..MaxConns
Reqs == 1..MaxReqs
NoConn == 0          \* the nil net.Conn (streams are numbered from 1)
NoReq == NoConn      \* no request (requests are numbered from 1)

\* ---- packets -------------------------------------------------------------
PacketVerify == "Verify"
PacketCmd1 == "Cmd1"
PackageError == "Error"
PacketOther == "Other"

\* conf.verifyVal, the configured secret, and a secret that differs from it
verifyVal == "secret"
wrongVal == "wrong"

\* What the agent side delivers as the first frame of a stream: a packet, a
\* frame the codec rejects, or nothing within the 5 second read deadline.
FirstFrames ==
    { [kind |-> "packet", cmd |-> PacketVerify, data |-> verifyVal],
      [kind |-> "packet", cmd |-> PacketVerify, data |-> wrongVal],
      [kind |-> "packet", cmd |-> PacketCmd1, data |-> verifyVal],
      [kind |-> "codecError", cmd |-> PacketOther, data |-> ""],
      [kind |-> "timeout", cmd |-> PacketOther, data |-> ""] }

\* Frames the server writes to a stream, by kind.
EncodeVerifyOK == "verifyOK"
EncodeVerifyFailed == "verifyFailed"
EncodeRequest == "request"

\* ---- HTTP responses ------------------------------------------------------
HeaderNames == {"Content-Type", "X-Content-Type-Options", "Set-Cookie"}
NoHeader == [k \in HeaderNames |-> <<>>]

\* http.Header.Set: the value replaces whatever the name carried.
HeaderSet(h, k, v) == [h EXCEPT ![k] = <<v>>]

errorHTML == "errorHTML"

\* The response writer before anything was written to it.
NoResponse == [status |-> 0, header |-> NoHeader, body |-> "", of |-> NoReq]

\* What the agent answers to request r: status, a multi-valued header, and a
\* body that names the request it answers (field of).
AgentResponse(r) ==
    [status |-> 200,
     header |-> [NoHeader EXCEPT !["Content-Type"] = <<"text/plain">>,
                                 !["Set-Cookie"] = <<"a=1", "b=2">>],
     body |-> "agentBody",
     of |-> r]

badRequest(w) ==
    [w EXCEPT !.header = HeaderSet(HeaderSet(w.header, "Content-Type", "text/html; charset=utf-8"),
                                   "X-Content-Type-Options", "nosniff"),
              !.status = 400,
              !.body = errorHTML]

\* ---- state ----------------------------------------------------------------
VARIABLES
    running,    \* s.running
    listener,   \* s.listener: "nil" or "open"
    httpSvr,    \* s.httpSvr: "nil" or "set"
    conn,       \* s.conn: NoConn or the active stream
    lock,       \* h.l: NoReq or the request that holds it
    crashed,    \* an unrecovered panic ended the process
    spc,        \* Start: "new", "running", "failed"
    tpc,        \* tcpServer: "none", "loop", "returned" (s.running was false)
    hpc,        \* httpServer: "none", "spawned", "serving", "stopped"
    kpc,        \* Close: "idle" or the line it is at
    kret,       \* what each finished call of Close returned, in order
    cpc,        \* cliProcess of each stream: "free" or the line it is at
    first,      \* the first frame each stream delivers
    stream,     \* each stream as the server finds it: "open", "peerClosed"
                \* (the agent closed it, or its I/O fails) or "closed" (the
                \* server called Close on it)
    sent,       \* the kinds of frame the server wrote to the stream
    inbox,      \* requests the agent received and has not answered
    fromAgent,  \* packets of the agent the server has not read
    rpc,        \* ServeHTTP of each request: "idle" or the line it is at
    resp,       \* the response writer w of each request
    rerr,       \* the error ServeHTTP logged for each request
    wroteTo,    \* the stream wData wrote the request to
    readFrom,   \* the stream readPacket was called with in read
    hist        \* observations of the run the properties refer to

vars == <<running, listener, httpSvr, conn, lock, crashed, spc, tpc, hpc, kpc, kret,
          cpc, first, stream, sent, inbox, fromAgent,
          rpc, resp, rerr, wroteTo, readFrom, hist>>

srvVars == <<running, listener, httpSvr, spc, tpc, hpc, kpc, kret>>
streamVars == <<stream, sent, inbox, fromAgent>>
cliVars == <<cpc, first>>
reqVars == <<rpc, resp, rerr, wroteTo, readFrom, lock>>

\* hist.swapped: requests during whose exchange (request written, response not
\* yet read) s.conn was assigned; hist.cutOff: requests whose agent closed the
\* active stream during the exchange without having answered.
HistInit == [swapped |-> {}, cutOff |-> {}]

NoFrame == [kind |-> "none", cmd |-> PacketOther, data |-> ""]

Init ==
    /\ running = FALSE
    /\ listener = "nil"
    /\ httpSvr = "nil"
    /\ conn = NoConn
    /\ lock = NoReq
    /\ crashed = FALSE
    /\ spc = "new"
    /\ tpc = "none"
    /\ hpc = "none"
    /\ kpc = "idle"
    /\ kret = <<>>
    /\ cpc = [c \in Conns |-> "free"]
    /\ first = [c \in Conns |-> NoFrame]
    /\ stream = [c \in Conns |-> "open"]
    /\ sent = [c \in Conns |-> {}]
    /\ inbox = [c \in Conns |-> <<>>]
    /\ fromAgent = [c \in Conns |-> <<>>]
    /\ rpc = [r \in Reqs |-> "idle"]
    /\ resp = [r \in Reqs |-> NoResponse]
    /\ rerr = [r \in Reqs |-> "none"]
    /\ wroteTo = [r \in Reqs |-> NoConn]
    /\ readFrom = [r \in Reqs |-> NoConn]
    /\ hist = HistInit

closedSrv(c) == stream[c] = "closed"
peerClosed(c) == stream[c] = "peerClosed"

\* A stream on which the server's reads and writes fail.
Unusable(c) == stream[c] # "open"

\* Whether a write of the server to stream c succeeds.  A write to a stream
\* the server closed fails; a write to a stream the peer closed may still be
\* accepted by the socket.
WriteOutcomes(c) ==
    IF closedSrv(c) THEN {FALSE}
    ELSE IF peerClosed(c) THEN {TRUE, FALSE}
    ELSE {TRUE}

\* ---- Start, httpServer, tcpServer ------------------------------------------
\* Start: net.Listen succeeds (ok) or fails; running is set in both cases.
Start(ok) ==
    /\ ~crashed
    /\ spc = "new"
    /\ kpc = "idle" /\ kret = <<>>
    /\ running' = TRUE
    /\ IF ok
       THEN /\ listener' = "open"
            /\ spc' = "running"
            /\ hpc' = "spawned"
            /\ tpc' = "loop"
       ELSE /\ spc' = "failed"
            /\ UNCHANGED <<listener, hpc, tpc>>
    /\ UNCHANGED <<httpSvr, kpc, kret, conn, crashed, hist>>
    /\ UNCHANGED <<streamVars, cliVars, reqVars>>

\* httpServer: builds the http.Server around the handler and serves.
httpServer ==
    /\ ~crashed
    /\ hpc = "spawned"
    /\ hpc' = "serving"
    /\ httpSvr' = "set"
    /\ UNCHANGED <<running, listener, spc, tpc, kpc, kret, conn, crashed, hist>>
    /\ UNCHANGED <<streamVars, cliVars, reqVars>>

\* tcpServer: Accept returns stream c, whose first frame will be f, and
\* cliProcess(c) is spawned; the loop goes on while s.running.  Once the
\* listener is closed Accept fails and the loop returns (no step of the model:
\* with listener = "nil" nothing is accepted).
tcpServerAccept(c, f) ==
    /\ ~crashed
    /\ tpc = "loop"
    /\ listener = "open"
    /\ cpc[c] = "free"
    /\ \A d \in Conns : d < c => cpc[d] # "free"
    /\ cpc' = [cpc EXCEPT ![c] = "l145"]
    /\ first' = [first EXCEPT ![c] = f]
    /\ tpc' = IF running THEN "loop" ELSE "returned"
    /\ UNCHANGED <<running, listener, httpSvr, spc, hpc, kpc, kret, conn, crashed, hist>>
    /\ UNCHANGED <<streamVars, reqVars>>

\* net.Conn.Close on stream x: reads and writes of the server on x fail from
\* now on, and what the agent sent or is about to answer is lost to it.
StreamClose(x) ==
    /\ stream' = [stream EXCEPT ![x] = "closed"]
    /\ inbox' = [inbox EXCEPT ![x] = <<>>]
    /\ fromAgent' = [fromAgent EXCEPT ![x] = <<>>]

\* ---- cliProcess -------------------------------------------------------------
\* A handler that accepts a Verify packet whatever secret it carries.
VerifyHandlerAnySecret(cmd, data) ==
    IF cmd = PacketVerify THEN "nil" ELSE "wrongFirstCmd"

\* The handler cliProcess gives readPacket for the first packet.
VerifyHandler(cmd, data) ==
    IF cmd = PacketVerify
    THEN (IF data # verifyVal THEN "verifyMismatch" ELSE "nil")
    ELSE "wrongFirstCmd"

\* readPacket on the first frame: the handler's error, or the stream's.
ReadFirst(f) ==
    IF f.kind = "packet" THEN VerifyHandler(f.cmd, f.data) ELSE f.kind

\* The requests whose exchange is between its request write and its response read.
InFlight == {r \in Reqs : rpc[r] \in {"l190", "reading"}}

\* s.conn is assigned: every exchange in flight has seen the reference change.
NoteAssign == [hist EXCEPT !.swapped = @ \cup InFlight]

\* Lines 145-164: the handshake read.  On an error the failure packet is
\* written (the result of the write is ignored) and the stream is closed.
\* Otherwise: is there an active connection (line 164)?
cliProcessVerify(c, wok) ==
    /\ ~crashed
    /\ cpc[c] = "l145"
    /\ IF ReadFirst(first[c]) # "nil"
       THEN /\ wok \in WriteOutcomes(c)
            /\ sent' = [sent EXCEPT ![c] = IF wok THEN @ \cup {EncodeVerifyFailed} ELSE @]
            /\ stream' = [stream EXCEPT ![c] = "closed"]
            /\ cpc' = [cpc EXCEPT ![c] = "failed"]
       ELSE /\ wok
            /\ cpc' = [cpc EXCEPT ![c] = IF conn # NoConn THEN "l166" ELSE "l169"]
            /\ UNCHANGED <<sent, stream>>
    /\ first' = [first EXCEPT ![c] = NoFrame]
    /\ UNCHANGED <<srvVars, conn, crashed, hist, inbox, fromAgent>>
    /\ UNCHANGED reqVars

\* Line 166: s.conn.Close(), on whatever s.conn holds now; a nil s.conn
\* panics in this goroutine, which ends the process.
cliProcessCloseOld(c) ==
    /\ ~crashed
    /\ cpc[c] = "l166"
    /\ IF conn = NoConn
       THEN /\ crashed' = TRUE
            /\ UNCHANGED <<cpc, stream, inbox, fromAgent>>
       ELSE /\ StreamClose(conn)
            /\ cpc' = [cpc EXCEPT ![c] = "l167"]
            /\ UNCHANGED crashed
    /\ UNCHANGED <<srvVars, conn, hist, first, sent>>
    /\ UNCHANGED reqVars

\* Line 167: s.conn = nil.
cliProcessDeref(c) ==
    /\ ~crashed
    /\ cpc[c] = "l167"
    /\ conn' = NoConn
    /\ cpc' = [cpc EXCEPT ![c] = "l169"]
    /\ hist' = NoteAssign
    /\ UNCHANGED <<srvVars, crashed, first>>
    /\ UNCHANGED <<streamVars, reqVars>>

\* Lines 169-171: the verification-success packet; a failed write returns.
cliProcessVerifyOK(c, wok) ==
    /\ ~crashed
    /\ cpc[c] = "l169"
    /\ wok \in WriteOutcomes(c)
    /\ sent' = [sent EXCEPT ![c] = IF wok THEN @ \cup {EncodeVerifyOK} ELSE @]
    /\ cpc' = [cpc EXCEPT ![c] = IF wok THEN "l173" ELSE "retErr"]
    /\ UNCHANGED <<srvVars, conn, crashed, hist, first, stream, inbox, fromAgent>>
    /\ UNCHANGED reqVars

\* Lines 173-174: s.conn = conn, and keepALive(s.conn) is entered.
cliProcessInstall(c) ==
    /\ ~crashed
    /\ cpc[c] = "l173"
    /\ conn' = c
    /\ cpc' = [cpc EXCEPT ![c] = "l174"]
    /\ hist' = NoteAssign
    /\ UNCHANGED <<srvVars, crashed, first>>
    /\ UNCHANGED <<streamVars, reqVars>>

\* keepALive: the watch of the stream it was given ends when that stream
\* becomes unusable, and cliProcess returns nil (line 175).  keepALive has
\* the stream only, not the server: s.conn stays as it is.
keepALive(c) ==
    /\ ~crashed
    /\ cpc[c] = "l174"
    /\ Unusable(c)
    /\ cpc' = [cpc EXCEPT ![c] = "done"]
    /\ UNCHANGED <<srvVars, conn, crashed, hist, first>>
    /\ UNCHANGED <<streamVars, reqVars>>

\* ---- Close ------------------------------------------------------------------
\* A Close that goes for the listener first.
ListenerFirst == "l54"

\* Line 44: with an active connection Close goes on at line 45, without one
\* at line 48.
AfterRunningCleared == IF conn # NoConn THEN "l45" ELSE "l48"

\* Lines 43-44: a call of Close begins: s.running = false, and is there an
\* active connection?
CloseBegin ==
    /\ ~crashed
    /\ kpc = "idle"
    /\ Len(kret) < MaxCloseCalls
    /\ running' = FALSE
    /\ kpc' = AfterRunningCleared
    /\ UNCHANGED <<listener, httpSvr, spc, tpc, hpc, kret, conn, crashed, hist>>
    /\ UNCHANGED <<streamVars, cliVars, reqVars>>

\* Line 45: s.conn.Close(), on whatever s.conn holds now; nil panics.
CloseConn ==
    /\ ~crashed
    /\ kpc = "l45"
    /\ IF conn = NoConn
       THEN /\ crashed' = TRUE
            /\ UNCHANGED <<kpc, stream, inbox, fromAgent>>
       ELSE /\ StreamClose(conn)
            /\ kpc' = "l46"
            /\ UNCHANGED crashed
    /\ UNCHANGED <<running, listener, httpSvr, spc, tpc, hpc, kret, conn, hist>>
    /\ UNCHANGED sent
    /\ UNCHANGED <<cliVars, reqVars>>

\* Line 46: s.conn = nil.
CloseDeref ==
    /\ ~crashed
    /\ kpc = "l46"
    /\ conn' = NoConn
    /\ kpc' = "l48"
    /\ hist' = NoteAssign
    /\ UNCHANGED <<running, listener, httpSvr, spc, tpc, hpc, kret, crashed>>
    /\ UNCHANGED <<streamVars, cliVars, reqVars>>

\* Lines 48-53: Shutdown with a 5 second grace, then Close, of the HTTP
\* server, which takes no new request; handlers that run go on running.
CloseHTTP ==
    /\ ~crashed
    /\ kpc = "l48"
    /\ kpc' = "l54"
    /\ IF httpSvr # "nil"
       THEN /\ httpSvr' = "nil"
            /\ hpc' = "stopped"
       ELSE UNCHANGED <<httpSvr, hpc>>
    /\ UNCHANGED <<running, listener, spc, tpc, kret, conn, crashed, hist>>
    /\ UNCHANGED <<streamVars, cliVars, reqVars>>

\* A Close that reports success when there is no listener.
NoListenerSilent == "nil"

\* Line 59: errors.New("TCP instance not created"), what Close returns when
\* s.listener is nil.
NoListenerError == "err"

\* Lines 54-59: the listener is closed and forgotten and its Close error
\* (none) is returned; without a listener Close returns an error.
CloseListener ==
    /\ ~crashed
    /\ kpc = "l54"
    /\ kpc' = "idle"
    /\ IF listener # "nil"
       THEN /\ listener' = "nil"
            /\ kret' = Append(kret, "nil")
       ELSE /\ kret' = Append(kret, NoListenerError)
            /\ UNCHANGED listener
    /\ UNCHANGED <<running, httpSvr, spc, tpc, hpc, conn, crashed, hist>>
    /\ UNCHANGED <<streamVars, cliVars, reqVars>>

\* ---- ServeHTTP, write, read ---------------------------------------------------
\* A failure path that answers 400 with the error's text as the body.
FailWithMessage(r, e) ==
    /\ resp' = [resp EXCEPT ![r] = [badRequest(@) EXCEPT !.body = e]]
    /\ rerr' = [rerr EXCEPT ![r] = e]
    /\ rpc' = [rpc EXCEPT ![r] = "done"]

\* Lines 106-109 and 112-115: badRequest(w), the error e is logged, return.
Fail(r, e) ==
    /\ resp' = [resp EXCEPT ![r] = badRequest(@)]
    /\ rerr' = [rerr EXCEPT ![r] = e]
    /\ rpc' = [rpc EXCEPT ![r] = "done"]

\* A method call on the nil interface panics inside the handler: net/http
\* recovers it and drops the caller's connection; nothing is written to w.
\* The deferred Unlock runs while the panic unwinds.
Panic(r) ==
    /\ rerr' = [rerr EXCEPT ![r] = "panic"]
    /\ rpc' = [rpc EXCEPT ![r] = "done"]
    /\ UNCHANGED resp

\* A shared (read) lock in place of the exclusive one: it always goes through.
LockShared == TRUE

\* Line 102: h.l.Lock() goes through when no request holds the lock.
LockFree == lock = NoReq

\* write without its check of s.conn.
NoActiveConnSkipped == FALSE

\* Line 179 of write: s.conn == nil.
NoActiveConn == conn = NoConn

\* A bridge that gives the active connection up as it goes.
TunnelDropped == conn' = NoConn /\ UNCHANGED stream

\* Lines 178-215: write and read assign nothing to s.conn and close no
\* stream.
TunnelUntouched == UNCHANGED <<conn, stream>>

\* An HTTP request arrives at the serving HTTP server.
ServeArrive(r) ==
    /\ ~crashed
    /\ hpc = "serving"
    /\ rpc[r] = "idle"
    /\ \A q \in Reqs : q < r => rpc[q] # "idle"
    /\ rpc' = [rpc EXCEPT ![r] = "l102"]
    /\ UNCHANGED <<srvVars, conn, crashed, hist, resp, rerr, wroteTo, readFrom, lock>>
    /\ UNCHANGED <<streamVars, cliVars>>

\* Line 102, h.l.Lock(), and lines 179-185 of write: the check of s.conn,
\* then EncodeRequest, which succeeds (encOk) or fails.
writeCheck(r, encOk) ==
    /\ ~crashed
    /\ rpc[r] = "l102"
    /\ LockFree
    /\ IF NoActiveConn
       THEN encOk /\ Fail(r, "notConnected")
       ELSE IF ~encOk
            THEN Fail(r, "encode")
            ELSE /\ rpc' = [rpc EXCEPT ![r] = "l186"]
                 /\ UNCHANGED <<resp, rerr>>
    /\ lock' = r
    /\ TunnelUntouched
    /\ UNCHANGED <<srvVars, crashed, hist, wroteTo, readFrom>>
    /\ UNCHANGED <<sent, inbox, fromAgent, cliVars>>

\* Line 186 of write: wData(s.conn, reqBytes), on what s.conn holds now.
\* Given nil, wData panics or returns an error.
writeData(r, wok, panics) ==
    /\ ~crashed
    /\ rpc[r] = "l186"
    /\ IF conn = NoConn
       THEN /\ ~wok
            /\ IF panics THEN Panic(r) ELSE Fail(r, "write")
            /\ UNCHANGED <<sent, inbox, wroteTo>>
       ELSE /\ ~panics
            /\ wok \in WriteOutcomes(conn)
            /\ IF wok
               THEN /\ sent' = [sent EXCEPT ![conn] = @ \cup {EncodeRequest}]
                    /\ inbox' = [inbox EXCEPT ![conn] = IF peerClosed(conn) THEN @ ELSE Append(@, r)]
                    /\ wroteTo' = [wroteTo EXCEPT ![r] = conn]
                    /\ rpc' = [rpc EXCEPT ![r] = "l190"]
                    /\ UNCHANGED <<resp, rerr>>
               ELSE /\ Fail(r, "write")
                    /\ UNCHANGED <<sent, inbox, wroteTo>>
    /\ TunnelUntouched
    /\ UNCHANGED <<srvVars, crashed, hist, readFrom, lock>>
    /\ UNCHANGED <<fromAgent, cliVars>>

\* Line 190 of read: readPacket(s.conn, ...) is called with what s.conn
\* holds now.  Given nil, readPacket panics or returns an error.
readCall(r, panics) ==
    /\ ~crashed
    /\ rpc[r] = "l190"
    /\ readFrom' = [readFrom EXCEPT ![r] = conn]
    /\ IF conn = NoConn
       THEN IF panics THEN Panic(r) ELSE Fail(r, "streamRead")
       ELSE /\ ~panics
            /\ rpc' = [rpc EXCEPT ![r] = "reading"]
            /\ UNCHANGED <<resp, rerr>>
    /\ TunnelUntouched
    /\ UNCHANGED <<srvVars, crashed, hist, wroteTo, lock>>
    /\ UNCHANGED <<sent, inbox, fromAgent, cliVars>>

RECURSIVE SetAll(_, _, _)
\* Lines 202-204: w.Header().Set(k, v2) for each value v2 of header k.
SetAll(h, k, vs) ==
    IF vs = <<>> THEN h ELSE SetAll(HeaderSet(h, k, Head(vs)), k, Tail(vs))

\* A copy that writes the status and forgets headers and body.
CopyStatusOnly(w, a) == [w EXCEPT !.status = a.status]

\* Lines 201-207: the decoded response is copied onto the response writer.
CopyResponse(w, a) ==
    [status |-> a.status,
     header |-> [k \in HeaderNames |-> SetAll(w.header, k, a.header[k])[k]],
     body |-> a.body,
     of |-> a.of]

\* A handler that treats a command of no case as an error.
UnhandledFails(r) == Fail(r, "unknownCmd")

\* Lines 191 and 213: a command of no case of the switch: return nil, and w
\* is left as it was.
Unhandled(r) ==
    /\ rpc' = [rpc EXCEPT ![r] = "done"]
    /\ UNCHANGED <<resp, rerr>>

\* DecodeResponse: the response a well-formed payload carries.
DecodeResponse(p) == AgentResponse(p.of)

\* Lines 190-214 of read: readPacket returns.  A stream the server closed
\* fails the read; otherwise the next packet is handed to the handler; with
\* no packet left, a stream the peer closed fails the read; otherwise the
\* read blocks.
readPacket(r) ==
    /\ ~crashed
    /\ rpc[r] = "reading"
    /\ LET x == readFrom[r] IN
       IF closedSrv(x)
       THEN Fail(r, "streamRead") /\ UNCHANGED fromAgent
       ELSE IF fromAgent[x] # <<>>
       THEN LET p == Head(fromAgent[x]) IN
            /\ fromAgent' = [fromAgent EXCEPT ![x] = Tail(@)]
            /\ IF p.cmd = PacketCmd1
               THEN IF p.valid
                    THEN /\ resp' = [resp EXCEPT ![r] = CopyResponse(@, DecodeResponse(p))]
                         /\ rpc' = [rpc EXCEPT ![r] = "done"]
                         /\ UNCHANGED rerr
                    ELSE Fail(r, "decode")
               ELSE IF p.cmd = PackageError
               THEN Fail(r, p.data)
               ELSE Unhandled(r)
       ELSE /\ peerClosed(x)
            /\ Fail(r, "streamRead")
            /\ UNCHANGED fromAgent
    /\ TunnelUntouched
    /\ UNCHANGED <<srvVars, crashed, hist, wroteTo, readFrom, lock>>
    /\ UNCHANGED <<sent, inbox, cliVars>>

\* A return that leaves the lock held.
UnlockForgotten == UNCHANGED lock

\* Line 103: defer h.l.Unlock().
Unlock == lock' = NoReq

\* Line 103: ServeHTTP has returned; the deferred h.l.Unlock() runs and the
\* exchange, with its response writer, is gone.
ServeReturn(r) ==
    /\ ~crashed
    /\ rpc[r] = "done"
    /\ Unlock
    /\ rpc' = [rpc EXCEPT ![r] = "gone"]
    /\ resp' = [resp EXCEPT ![r] = NoResponse]
    /\ rerr' = [rerr EXCEPT ![r] = "none"]
    /\ wroteTo' = [wroteTo EXCEPT ![r] = NoConn]
    /\ readFrom' = [readFrom EXCEPT ![r] = NoConn]
    /\ hist' = [hist EXCEPT !.swapped = @ \ {r}, !.cutOff = @ \ {r}]
    /\ UNCHANGED <<srvVars, conn, crashed>>
    /\ UNCHANGED <<streamVars, cliVars>>

\* ---- the agents ---------------------------------------------------------------
ReplyKinds == {"cmd1", "malformed", "error", "other"}

Packet(kind, r) ==
    [cmd |-> IF kind \in {"cmd1", "malformed"} THEN PacketCmd1
             ELSE IF kind = "error" THEN PackageError ELSE PacketOther,
     valid |-> kind = "cmd1",
     data |-> IF kind = "error" THEN "agentError" ELSE "",
     of |-> r]

\* The agent of stream c answers the oldest request it holds.
AgentReply(c, kind) ==
    /\ ~crashed
    /\ ~Unusable(c)
    /\ inbox[c] # <<>>
    /\ inbox' = [inbox EXCEPT ![c] = Tail(@)]
    /\ fromAgent' = [fromAgent EXCEPT ![c] = Append(@, Packet(kind, Head(inbox[c])))]
    /\ UNCHANGED <<srvVars, conn, crashed, hist, stream, sent>>
    /\ UNCHANGED <<cliVars, reqVars>>

\* The agent closes its end of stream c (or the stream's I/O fails).
AgentClose(c) ==
    /\ ~crashed
    /\ cpc[c] \notin {"free", "failed"}
    /\ ~Unusable(c)
    /\ stream' = [stream EXCEPT ![c] = "peerClosed"]
    /\ inbox' = [inbox EXCEPT ![c] = <<>>]
    /\ hist' = [hist EXCEPT
                  !.cutOff = @ \cup {r \in InFlight :
                                       wroteTo[r] = c /\ conn = c /\ fromAgent[c] = <<>>}]
    /\ UNCHANGED <<srvVars, conn, crashed, sent, fromAgent>>
    /\ UNCHANGED <<cliVars, reqVars>>

\* The agent of a verified stream c sends a response packet nobody asked for.
AgentPush(c) ==
    /\ ~crashed
    /\ ~Unusable(c)
    /\ EncodeVerifyOK \in sent[c]
    /\ Len(fromAgent[c]) < MaxPushed
    /\ fromAgent' = [fromAgent EXCEPT ![c] = Append(@, Packet("cmd1", NoReq))]
    /\ UNCHANGED <<srvVars, conn, crashed, hist, stream, sent, inbox>>
    /\ UNCHANGED <<cliVars, reqVars>>

\* ---- the specification ----------------------------------------------------------
Next ==
    \/ \E ok \in BOOLEAN : Start(ok)
    \/ httpServer
    \/ \E c \in Conns, f \in FirstFrames : tcpServerAccept(c, f)
    \/ \E c \in Conns, wok \in BOOLEAN : cliProcessVerify(c, wok)
    \/ \E c \in Conns : cliProcessCloseOld(c)
    \/ \E c \in Conns : cliProcessDeref(c)
    \/ \E c \in Conns, wok \in BOOLEAN : cliProcessVerifyOK(c, wok)
    \/ \E c \in Conns : cliProcessInstall(c)
    \/ \E c \in Conns : keepALive(c)
    \/ CloseBegin
    \/ CloseConn
    \/ CloseDeref
    \/ CloseHTTP
    \/ CloseListener
    \/ \E r \in Reqs : ServeArrive(r)
    \/ \E r \in Reqs, encOk \in BOOLEAN : writeCheck(r, encOk)
    \/ \E r \in Reqs, wok \in BOOLEAN, panics \in BOOLEAN : writeData(r, wok, panics)
    \/ \E r \in Reqs, panics \in BOOLEAN : readCall(r, panics)
    \/ \E r \in Reqs : readPacket(r)
    \/ \E r \in Reqs : ServeReturn(r)
    \/ \E c \in Conns, kind \in ReplyKinds : AgentReply(c, kind)
    \/ \E c \in Conns : AgentClose(c)

Spec == Init /\ [][Next]_vars

\* One agent that answers every request with one well-formed Cmd1 packet, in
\* arrival order; no second stream, no Close, no failing stream.
NextHonest ==
    \/ \E ok \in BOOLEAN : Start(ok)
    \/ httpServer
    \/ \E c \in Conns, f \in FirstFrames : (\A d \in Conns : c <= d) /\ tcpServerAccept(c, f)
    \/ \E c \in Conns, wok \in BOOLEAN : cliProcessVerify(c, wok)
    \/ \E c \in Conns, wok \in BOOLEAN : cliProcessVerifyOK(c, wok)
    \/ \E c \in Conns : cliProcessInstall(c)
    \/ \E r \in Reqs : ServeArrive(r)
    \/ \E r \in Reqs, encOk \in BOOLEAN : writeCheck(r, encOk)
    \/ \E r \in Reqs, wok \in BOOLEAN, panics \in BOOLEAN : writeData(r, wok, panics)
    \/ \E r \in Reqs, panics \in BOOLEAN : readCall(r, panics)
    \/ \E r \in Reqs : readPacket(r)
    \/ \E r \in Reqs : ServeReturn(r)
    \/ \E c \in Conns : AgentReply(c, "cmd1")

SpecHonest == Init /\ [][NextHonest]_vars

\* The program while nobody calls Close, with agents that also send packets
\* unasked.
NextPush ==
    \/ \E ok \in BOOLEAN : Start(ok)
    \/ httpServer
    \/ \E c \in Conns, f \in FirstFrames : tcpServerAccept(c, f)
    \/ \E c \in Conns, wok \in BOOLEAN : cliProcessVerify(c, wok)
    \/ \E c \in Conns : cliProcessCloseOld(c)
    \/ \E c \in Conns : cliProcessDeref(c)
    \/ \E c \in Conns, wok \in BOOLEAN : cliProcessVerifyOK(c, wok)
    \/ \E c \in Conns : cliProcessInstall(c)
    \/ \E c \in Conns : keepALive(c)
    \/ \E r \in Reqs : ServeArrive(r)
    \/ \E r \in Reqs, encOk \in BOOLEAN : writeCheck(r, encOk)
    \/ \E r \in Reqs, wok \in BOOLEAN, panics \in BOOLEAN : writeData(r, wok, panics)
    \/ \E r \in Reqs, panics \in BOOLEAN : readCall(r, panics)
    \/ \E r \in Reqs : readPacket(r)
    \/ \E r \in Reqs : ServeReturn(r)
    \/ \E c \in Conns, kind \in ReplyKinds : AgentReply(c, kind)
    \/ \E c \in Conns : AgentClose(c)
    \/ \E c \in Conns : AgentPush(c)

SpecPush == Init /\ [][NextPush]_vars

\* No handshake is under way: every accepted stream was installed or refused.
HandshakesOver == \A d \in Conns : cpc[d] \in {"free", "l174", "done", "failed", "retErr"}

\* The program while nobody calls Close and agents connect one after another.
NextLive ==
    \/ \E ok \in BOOLEAN : Start(ok)
    \/ httpServer
    \/ \E c \in Conns, f \in FirstFrames : HandshakesOver /\ tcpServerAccept(c, f)
    \/ \E c \in Conns, wok \in BOOLEAN : cliProcessVerify(c, wok)
    \/ \E c \in Conns : cliProcessCloseOld(c)
    \/ \E c \in Conns : cliProcessDeref(c)
    \/ \E c \in Conns, wok \in BOOLEAN : cliProcessVerifyOK(c, wok)
    \/ \E c \in Conns : cliProcessInstall(c)
    \/ \E c \in Conns : keepALive(c)
    \/ \E r \in Reqs : ServeArrive(r)
    \/ \E r \in Reqs, encOk \in BOOLEAN : writeCheck(r, encOk)
    \/ \E r \in Reqs, wok \in BOOLEAN, panics \in BOOLEAN : writeData(r, wok, panics)
    \/ \E r \in Reqs, panics \in BOOLEAN : readCall(r, panics)
    \/ \E r \in Reqs : readPacket(r)
    \/ \E r \in Reqs : ServeReturn(r)
    \/ \E c \in Conns, kind \in ReplyKinds : AgentReply(c, kind)
    \/ \E c \in Conns : AgentClose(c)

\* The scheduler runs every goroutine that can run: a handler that can take
\* its next step takes it.  An agent that holds a request answers it unless
\* its stream fails first.
FairHandlers ==
    \A r \in Reqs :
        /\ WF_vars(\E encOk \in BOOLEAN : writeCheck(r, encOk))
        /\ WF_vars(\E wok \in BOOLEAN, panics \in BOOLEAN : writeData(r, wok, panics))
        /\ WF_vars(\E panics \in BOOLEAN : readCall(r, panics))
        /\ WF_vars(readPacket(r))
        /\ WF_vars(ServeReturn(r))

FairAgents == \A c \in Conns : WF_vars(\E kind \in ReplyKinds : AgentReply(c, kind))

SpecLive == Init /\ [][NextLive]_vars /\ FairHandlers /\ FairAgents

\* ---- properties -----------------------------------------------------------------
\* The fixed response of a failed exchange: 400, the two headers, the fixed page.
FixedBadRequest ==
    [status |-> 400,
     header |-> [k \in HeaderNames |->
                    IF k = "Content-Type" THEN <<"text/html; charset=utf-8">>
                    ELSE IF k = "X-Content-Type-Options" THEN <<"nosniff">>
                    ELSE <<>>],
     body |-> errorHTML,
     of |-> NoReq]

\* Request r is between the start of its request write and the end of its
\* response read.
InExchange(r) == rpc[r] \in {"l186", "l190", "reading"}

\* The streams that were installed as the active connection.
Installed == {c \in Conns : cpc[c] \in {"l174", "done"}}

\* C1: at any instant at most one request is between the start of its request
\* write and the end of its response read; no request is written to the tunnel
\* while another exchange still waits for its response.
C1_OneExchangeAtATime ==
    \A r, q \in Reqs : (r # q /\ InExchange(r)) => ~InExchange(q)

C1_Witness ==
    \E r, q \in Reqs : r # q /\ rpc[r] = "reading" /\ rpc[q] = "l102"

\* C2: with one agent that answers every request with one Cmd1 packet in
\* arrival order, and neither replacement nor shutdown, a request that was
\* written to the agent ends with the status and body the agent sent in reply
\* to that very request, never with the reply to another request.
C2_OwnResponse ==
    \A r \in Reqs :
        rpc[r] = "done" =>
            \/ wroteTo[r] = NoConn /\ rerr[r] \in {"notConnected", "encode"}
            \/ /\ wroteTo[r] # NoConn
               /\ rerr[r] = "none"
               /\ resp[r].of = r
               /\ resp[r].status = AgentResponse(r).status
               /\ resp[r].body = AgentResponse(r).body

C2_Witness ==
    \E r, q \in Reqs :
        /\ r # q
        /\ rpc[r] = "done" /\ resp[r].of = r
        /\ rpc[q] = "l102"

\* C3: a request whose write step finds no active connection is answered with
\* the fixed 400 response in that step, and the step writes nothing to and
\* reads nothing from any tunnel stream.
C3_NotConnected ==
    [][\A r \in Reqs :
         (rpc[r] = "l102" /\ rpc'[r] # "l102" /\ conn = NoConn) =>
            /\ rpc'[r] = "done"
            /\ resp'[r] = FixedBadRequest
            /\ wroteTo'[r] = NoConn /\ readFrom'[r] = NoConn
            /\ sent' = sent /\ inbox' = inbox /\ fromAgent' = fromAgent]_vars

C3_Witness ==
    \E r \in Reqs : rpc[r] = "done" /\ rerr[r] = "notConnected" /\ resp[r] = FixedBadRequest

\* The first frame is a Verify packet that carries the configured secret.
GoodFirst(f) == f.kind = "packet" /\ f.cmd = PacketVerify /\ f.data = verifyVal

\* C4: a stream gets past the handshake, and so can become the active
\* connection, only if its first packet is Verify with the configured secret;
\* on any other first frame the server writes the failure packet (when the
\* stream still takes it), closes that stream and leaves s.conn and every other
\* stream as they are.  Only a stream that got past the handshake is installed.
C4_Handshake ==
    /\ [][\A c \in Conns :
            (cpc[c] = "l145" /\ cpc'[c] # "l145") =>
               IF GoodFirst(first[c])
               THEN cpc'[c] \in {"l166", "l169"} /\ stream' = stream
               ELSE /\ cpc'[c] = "failed"
                    /\ stream'[c] = "closed"
                    /\ (stream[c] = "open" => EncodeVerifyFailed \in sent'[c])
                    /\ conn' = conn
                    /\ \A d \in Conns \ {c} : stream'[d] = stream[d]]_vars
    /\ [][\A c \in Conns : (conn' = c /\ conn # c) => cpc[c] = "l173"]_vars
    /\ [][\A c \in Conns : (cpc'[c] = "l173" /\ cpc[c] # "l173") => cpc[c] = "l169"]_vars
    /\ [][\A c \in Conns : (cpc'[c] = "l169" /\ cpc[c] # "l169") => cpc[c] \in {"l145", "l167"}]_vars
    /\ [][\A c \in Conns : (cpc'[c] \in {"l166", "l167"} /\ cpc[c] # cpc'[c]) => cpc[c] \in {"l145", "l166"}]_vars

C4_Witness ==
    \E c, d \in Conns :
        /\ c # d
        /\ cpc[c] = "failed" /\ stream[c] = "closed" /\ EncodeVerifyFailed \in sent[c]
        /\ conn = d /\ stream[d] = "open"

\* C5: at most one stream that was installed as the active connection is open
\* on the server side: whenever a stream is installed, every stream installed
\* before it has been closed.
C5_OneOpenAgent ==
    \A c, d \in Installed : (c # d) => (closedSrv(c) \/ closedSrv(d))

\* C6: when a handshake completes while another agent is the active connection,
\* that agent's stream is closed and the new stream becomes the active
\* connection; every request packet written from then on goes to the stream
\* that is the active connection at that moment.
C6_Replacement ==
    /\ [][\A c \in Conns :
            (cpc[c] = "l173" /\ cpc'[c] = "l174") =>
               /\ conn' = c
               /\ \A d \in Installed \ {c} : closedSrv(d)]_vars
    /\ [][\A r \in Reqs :
            (wroteTo'[r] # NoConn /\ wroteTo[r] = NoConn) => wroteTo'[r] = conn]_vars

\* C7: once the active agent's stream has become unusable at the agent's end and
\* the stream's lifecycle (cliProcess) has ended, the stream is no longer the
\* active connection.
C7_DeadAgentCleared ==
    \A c \in Conns : (cpc[c] = "done" /\ peerClosed(c)) => conn # c

\* C8: a request whose agent closed the active stream after the request was
\* written and before any answer to it, ends with the fixed 400 response.
C8_CutOff ==
    \A r \in Reqs : (rpc[r] = "done" /\ r \in hist.cutOff) => resp[r] = FixedBadRequest

\* C9: an exchange during which s.conn was replaced or cleared (after its
\* request write, before its response read) never calls its read with the nil
\* reference, and ends with the fixed 400 response or the answer to its request.
C9_SwapFailsCleanly ==
    \A r \in Reqs :
        (rpc[r] = "done" /\ r \in hist.swapped) =>
            /\ readFrom[r] # NoConn
            /\ (resp[r] = FixedBadRequest \/ (rerr[r] = "none" /\ resp[r].of = r))

\* The errors of the exchange steps: no active agent, request encoding, the
\* write, the stream read, response decoding, and the agent's Error packet.
StepErrors == {"notConnected", "encode", "write", "streamRead", "decode", "agentError"}

\* C10: whenever a step of the exchange failed, the caller gets exactly the
\* fixed 400 response, whose body is the fixed page and never the error's text.
C10_Uniform400 ==
    \A r \in Reqs :
        (rpc[r] = "done" /\ rerr[r] \in StepErrors) =>
            /\ resp[r] = FixedBadRequest
            /\ resp[r].body # rerr[r]

C10_Witness ==
    \E r \in Reqs : rpc[r] = "done" /\ rerr[r] = "agentError" /\ resp[r] = FixedBadRequest

\* C11: on a started server a second call of Close returns no error, and
\* leaves the server as the first call left it.
C11_SecondCloseSucceeds ==
    (spc = "running" /\ Len(kret) >= 2) =>
        /\ kret[2] = "nil"
        /\ ~running /\ listener = "nil" /\ httpSvr = "nil"

\* C12: every call of Close on a server whose listener was never created
\* (Start was not called, or net.Listen failed) returns an error.
C12_CloseWithoutListener ==
    spc \in {"new", "failed"} => \A i \in 1..Len(kret) : kret[i] = "err"

C12_Witness ==
    /\ spc = "failed" /\ Len(kret) = MaxCloseCalls
    /\ \A i \in 1..Len(kret) : kret[i] = "err"

\* C13: the steps of a call of Close come in one order: s.running is cleared
\* first; then the active connection, if there is one, is closed and then
\* dereferenced; then the HTTP server is shut down; then, and only then, the
\* listener is closed.  No step of Close touches what a later step is for.
C13_CloseOrder ==
    /\ [][(kpc = "idle" /\ kpc' # "idle") =>
            /\ ~running'
            /\ kpc' = (IF conn # NoConn THEN "l45" ELSE "l48")
            /\ conn' = conn /\ stream' = stream
            /\ httpSvr' = httpSvr /\ listener' = listener]_vars
    /\ [][(kpc = "l45" /\ kpc' # "l45") =>
            /\ kpc' = "l46"
            /\ conn # NoConn /\ stream'[conn] = "closed"
            /\ conn' = conn /\ httpSvr' = httpSvr /\ listener' = listener]_vars
    /\ [][(kpc = "l46" /\ kpc' # "l46") =>
            /\ kpc' = "l48"
            /\ conn' = NoConn
            /\ httpSvr' = httpSvr /\ listener' = listener]_vars
    /\ [][(kpc = "l48" /\ kpc' # "l48") =>
            /\ kpc' = "l54"
            /\ httpSvr' = "nil"
            /\ conn' = conn /\ stream' = stream /\ listener' = listener]_vars
    /\ [][(kpc = "l54" /\ kpc' # "l54") =>
            /\ kpc' = "idle"
            /\ listener' = "nil"
            /\ conn' = conn /\ stream' = stream /\ httpSvr' = httpSvr]_vars
    /\ [][listener' # listener /\ listener' = "nil" => kpc = "l54" /\ ~running]_vars
    /\ [][httpSvr' # httpSvr /\ httpSvr' = "nil" => kpc = "l48" /\ ~running]_vars

C13_Witness ==
    /\ kpc = "idle" /\ Len(kret) = 1 /\ kret[1] = "nil"
    /\ ~running /\ conn = NoConn /\ hpc = "stopped" /\ listener = "nil"
    /\ \E c \in Conns : cpc[c] \in {"l174", "done"} /\ closedSrv(c)

\* C14: no step of an HTTP exchange, failed or not, closes a stream or changes
\* s.conn: after a failed write, a failed decode or an Error packet of the
\* agent the tunnel is as it was before the step.
C14_TunnelUnchanged ==
    [][(rpc' # rpc) => (conn' = conn /\ stream' = stream)]_vars

C14_Witness ==
    \E r \in Reqs :
        /\ rpc[r] = "done" /\ rerr[r] \in {"decode", "agentError"}
        /\ conn # NoConn /\ conn = wroteTo[r] /\ stream[conn] = "open"

\* C15: a request answered with a Cmd1 packet ends with the status, the body
\* and, for every header name, all the values the agent sent for it.
C15_HeadersVerbatim ==
    \A r \in Reqs :
        (rpc[r] = "done" /\ rerr[r] = "none" /\ resp[r].of = r) =>
            /\ resp[r].status = AgentResponse(r).status
            /\ resp[r].body = AgentResponse(r).body
            /\ \A k \in HeaderNames : resp[r].header[k] = AgentResponse(r).header[k]

\* C16: an exchange never takes a packet from a stream other than the one its
\* request was written to.
C16_SameStream ==
    [][\A r \in Reqs :
         (/\ rpc[r] = "reading" /\ rpc'[r] = "done"
          /\ fromAgent'[readFrom[r]] # fromAgent[readFrom[r]]) =>
            readFrom[r] = wroteTo[r]]_vars

C18_ActivationOrder ==
    /\ [][\A c \in Conns :
            (cpc[c] = "l169" /\ cpc'[c] # "l169") =>
               IF EncodeVerifyOK \in sent'[c]
               THEN cpc'[c] = "l173" /\ conn' = conn
               ELSE cpc'[c] = "retErr" /\ conn' = NoConn]_vars
    /\ [][\A c \in Conns : (conn' = c /\ conn # c) => EncodeVerifyOK \in sent[c]]_vars
    /\ [][\A c \in Conns :
            (cpc'[c] = "l169" /\ cpc[c] # "l169") =>
               \/ cpc[c] = "l145"
               \/ cpc[c] = "l167" /\ conn' = NoConn]_vars
    /\ [][\A c \in Conns :
            (EncodeRequest \in sent'[c] /\ EncodeRequest \notin sent[c]) =>
               EncodeVerifyOK \in sent[c]]_vars

\* C19: once a call of Close is past the active connection (line 47), s.conn
\* is nil and stays nil.
C19_StaysEmpty ==
    (kpc \in {"l48", "l54"} \/ Len(kret) >= 1) => conn = NoConn

\* The response read of request q waits on an open stream that has nothing
\* for it and whose agent holds no request it could answer.
Stalled(q) ==
    /\ rpc[q] = "reading"
    /\ stream[readFrom[q]] = "open"
    /\ fromAgent[readFrom[q]] = <<>>
    /\ inbox[readFrom[q]] = <<>>

\* C20: every return of ServeHTTP, after a write error, a read error or a
\* success, releases the bridge lock, and the lock is held from the write to
\* the return; so under fair scheduling, with agents that answer the requests
\* they hold unless their stream fails, every request that has arrived gets
\* the lock and returns, unless some response read never returns.
C20_LockReleased ==
    /\ [][\A r \in Reqs : (rpc[r] = "done" /\ rpc'[r] # "done") => lock' = NoReq]_vars
    /\ [](\A r \in Reqs : rpc[r] \in {"l186", "l190", "reading", "done"} => lock = r)
    /\ \/ <>[](\E q \in Reqs : Stalled(q))
       \/ \A r \in Reqs : (rpc[r] = "l102") ~> (rpc[r] = "gone")

C20_Witness ==
    \E r, q \in Reqs :
        /\ r # q
        /\ rpc[r] = "gone"
        /\ rpc[q] = "done" /\ lock = q /\ rerr[q] \in {"none", "streamRead"}
====
